---- MODULE Spec2Model ----
(***************************************************************************)
(* Fee schedule of the runtime (runtime/near-runtime-fees/src/lib.rs).     *)
(*                                                                         *)
(* Gas is u64.  A Gas value is written in decimal, in three limbs of nine  *)
(* digits: Dec(h, m, l) is h * 10^18 + m * 10^9 + l, so that               *)
(* Dec(0, 151, 021812500) is the literal 151021812500 of the source.       *)
(* Sums are computed on the limbs, exactly, and the u64 `+` of the code    *)
(* is the exact sum followed by the overflow rule of the build.            *)
(***************************************************************************)
EXTENDS Integers, Sequences, FiniteSets, TLC

VARIABLES
    overflow_checks,  \* build profile: TRUE when `+` panics on overflow, FALSE when it wraps
    cfg,              \* the RuntimeFeesConfig value the caller holds
    built,            \* how cfg was built: "default", "free" or "literal"
    op,               \* the last operation called
    self,             \* the Fee the last Fee method was called on
    sir,              \* the flag passed to the last send_fee
    ret               \* what the last operation returned

vars == <<overflow_checks, cfg, built, op, self, sir, ret>>

\* Largest small gas quantity used in hand-written Fee literals.
MaxSmallGas == 1

(***************************************************************************)
(* Exact arithmetic on decimal limbs.                                      *)
(***************************************************************************)
LimbBase == 10 ^ 9

Dec(h, m, l) == <<h, m, l>>

Zero == Dec(0, 0, 0)

\* u64::MAX = 18446744073709551615
U64Max == Dec(18, 446744073, 709551615)

\* 2^64 = 18446744073709551616
TwoPow64 == Dec(18, 446744073, 709551616)

BigAdd(a, b) ==
    LET l  == a[3] + b[3]
        c1 == IF l >= LimbBase THEN 1 ELSE 0
        m  == a[2] + b[2] + c1
        c2 == IF m >= LimbBase THEN 1 ELSE 0
    IN  <<a[1] + b[1] + c2, m - c2 * LimbBase, l - c1 * LimbBase>>

\* a - b, for a >= b
BigSub(a, b) ==
    LET b1 == IF a[3] < b[3] THEN 1 ELSE 0
        l  == a[3] + b1 * LimbBase - b[3]
        b2 == IF a[2] < b[2] + b1 THEN 1 ELSE 0
        m  == a[2] + b2 * LimbBase - b[2] - b1
    IN  <<a[1] - b[1] - b2, m, l>>

BigLess(a, b) ==
    \/ a[1] < b[1]
    \/ a[1] = b[1] /\ a[2] < b[2]
    \/ a[1] = b[1] /\ a[2] = b[2] /\ a[3] < b[3]

BigLeq(a, b) == a = b \/ BigLess(a, b)

(***************************************************************************)
(* Results of a call.                                                      *)
(***************************************************************************)
Value(g) == [kind |-> "value", v |-> g]

Panic == [kind |-> "panic", v |-> Zero]

Unit == [kind |-> "unit", v |-> Zero]

NoRet == [kind |-> "none", v |-> Zero]

\* `a + b` on u64: the exact sum when it fits; otherwise a panic in a build
\* with overflow checks and the sum modulo 2^64 in a build without.
AddU64(a, b, checks) ==
    LET s == BigAdd(a, b)
    IN  IF BigLeq(s, U64Max) THEN Value(s)
        ELSE IF checks THEN Panic
        ELSE Value(BigSub(s, TwoPow64))

\* variant: the larger operand instead of the smaller
cmp_max(a, b) == IF BigLeq(a, b) THEN b ELSE a

\* std::cmp::min on u64
cmp_min(a, b) == IF BigLeq(a, b) THEN a ELSE b

(***************************************************************************)
(* Fee and its methods.                                                    *)
(***************************************************************************)
Fee(s, n, e) == [send_sir |-> s, send_not_sir |-> n, execution |-> e]

\* variant: the two branches exchanged
send_fee_swapped(fee, b) == IF b THEN fee.send_not_sir ELSE fee.send_sir

send_fee(fee, b) == IF b THEN fee.send_sir ELSE fee.send_not_sir

exec_fee(fee) == fee.execution

\* variant: the execution fee left out
min_send_and_exec_fee_send_only(fee, checks) ==
    Value(cmp_min(fee.send_sir, fee.send_not_sir))

min_send_and_exec_fee(fee, checks) ==
    AddU64(cmp_min(fee.send_sir, fee.send_not_sir), fee.execution, checks)

(***************************************************************************)
(* num_rational::Rational, as far as the schedule uses it: Rational::new   *)
(* reduces to lowest terms, Rational::from_integer(n) is n / 1.            *)
(***************************************************************************)
RECURSIVE Gcd(_, _)
Gcd(a, b) == IF b = 0 THEN a ELSE Gcd(b, a % b)

RationalNew(n, d) ==
    LET g == Gcd(n, d)
    IN  [numer |-> n \div g, denom |-> d \div g]

RationalFromInteger(n) == [numer |-> n, denom |-> 1]

\* r > 1, r = 0, for a rational in lowest terms with a positive denominator
RationalGreaterThanOne(r) == r.numer > r.denom

RationalIsZero(r) == r.numer = 0

(***************************************************************************)
(* impl Default for RuntimeFeesConfig                                      *)
(***************************************************************************)
default_burnt_gas_reward == RationalNew(3, 10)

\* variant: numerator and denominator exchanged
default_pessimistic_inverted == RationalNew(100, 103)

default_pessimistic_gas_price_inflation_ratio == RationalNew(103, 100)

default_action_receipt_creation_config ==
    Fee(Dec(0, 151, 021812500), Dec(0, 151, 021812500), Dec(0, 151, 021812500))

default_data_receipt_base_cost ==
    Fee(Dec(0, 1068, 762938750), Dec(0, 1068, 762938750), Dec(0, 1068, 762938750))

default_function_call_cost ==
    Fee(Dec(0, 2614, 094875000), Dec(0, 2614, 094875000), Dec(0, 2614, 094875000))

DefaultConfig ==
    [ action_receipt_creation_config |-> default_action_receipt_creation_config,
      data_receipt_creation_config |->
        [ base_cost |-> default_data_receipt_base_cost,
          cost_per_byte |->
            Fee(Dec(0, 0, 23982274), Dec(0, 0, 23982274), Dec(0, 0, 23982274)) ],
      action_creation_config |->
        [ create_account_cost |->
            Fee(Dec(0, 130, 476125000), Dec(0, 130, 476125000), Dec(0, 130, 476125000)),
          deploy_contract_cost |->
            Fee(Dec(0, 222, 739562500), Dec(0, 222, 739562500), Dec(0, 222, 739562500)),
          deploy_contract_cost_per_byte |->
            Fee(Dec(0, 0, 6846508), Dec(0, 0, 6846508), Dec(0, 0, 6846508)),
          function_call_cost |-> default_function_call_cost,
          function_call_cost_per_byte |->
            Fee(Dec(0, 0, 2521519), Dec(0, 0, 2521519), Dec(0, 0, 2521519)),
          transfer_cost |->
            Fee(Dec(0, 159, 813250000), Dec(0, 159, 813250000), Dec(0, 159, 813250000)),
          stake_cost |->
            Fee(Dec(0, 167, 840812500), Dec(0, 167, 840812500), Dec(0, 167, 840812500)),
          add_key_cost |->
            [ full_access_cost |->
                Fee(Dec(0, 137, 640187500), Dec(0, 137, 640187500), Dec(0, 137, 640187500)),
              function_call_cost |->
                Fee(Dec(0, 135, 268437500), Dec(0, 135, 268437500), Dec(0, 135, 268437500)),
              function_call_cost_per_byte |->
                Fee(Dec(0, 0, 22361438), Dec(0, 0, 22361438), Dec(0, 0, 22361438)) ],
          delete_key_cost |->
            Fee(Dec(0, 122, 405750000), Dec(0, 122, 405750000), Dec(0, 122, 405750000)),
          delete_account_cost |->
            Fee(Dec(0, 205, 135750000), Dec(0, 205, 135750000), Dec(0, 205, 135750000)) ],
      storage_usage_config |-> [ num_bytes_account |-> 100, num_extra_bytes_record |-> 40 ],
      burnt_gas_reward |-> default_burnt_gas_reward,
      pessimistic_gas_price_inflation_ratio |->
        default_pessimistic_gas_price_inflation_ratio ]

(***************************************************************************)
(* RuntimeFeesConfig::free                                                 *)
(***************************************************************************)
\* variant: a free Fee that still charges execution
free_fee_exec_one == Fee(Zero, Zero, Dec(0, 0, 1))

free_fee == Fee(Zero, Zero, Zero)

FreeConfig ==
    [ action_receipt_creation_config |-> free_fee,
      data_receipt_creation_config |->
        [ base_cost |-> free_fee, cost_per_byte |-> free_fee ],
      action_creation_config |->
        [ create_account_cost |-> free_fee,
          deploy_contract_cost |-> free_fee,
          deploy_contract_cost_per_byte |-> free_fee,
          function_call_cost |-> free_fee,
          function_call_cost_per_byte |-> free_fee,
          transfer_cost |-> free_fee,
          stake_cost |-> free_fee,
          add_key_cost |->
            [ full_access_cost |-> free_fee,
              function_call_cost |-> free_fee,
              function_call_cost_per_byte |-> free_fee ],
          delete_key_cost |-> free_fee,
          delete_account_cost |-> free_fee ],
      storage_usage_config |-> [ num_bytes_account |-> 0, num_extra_bytes_record |-> 0 ],
      burnt_gas_reward |-> RationalFromInteger(0),
      pessimistic_gas_price_inflation_ratio |-> RationalFromInteger(0) ]

(***************************************************************************)
(* The Fee fields of a RuntimeFeesConfig, by path.                         *)
(***************************************************************************)
FeePaths ==
    { <<"action_receipt_creation_config">>,
      <<"data_receipt_creation_config", "base_cost">>,
      <<"data_receipt_creation_config", "cost_per_byte">>,
      <<"action_creation_config", "create_account_cost">>,
      <<"action_creation_config", "deploy_contract_cost">>,
      <<"action_creation_config", "deploy_contract_cost_per_byte">>,
      <<"action_creation_config", "function_call_cost">>,
      <<"action_creation_config", "function_call_cost_per_byte">>,
      <<"action_creation_config", "transfer_cost">>,
      <<"action_creation_config", "stake_cost">>,
      <<"action_creation_config", "add_key_cost", "full_access_cost">>,
      <<"action_creation_config", "add_key_cost", "function_call_cost">>,
      <<"action_creation_config", "add_key_cost", "function_call_cost_per_byte">>,
      <<"action_creation_config", "delete_key_cost">>,
      <<"action_creation_config", "delete_account_cost">> }

FeeAt(c, p) ==
    IF Len(p) = 1 THEN c[p[1]]
    ELSE IF Len(p) = 2 THEN c[p[1]][p[2]]
    ELSE c[p[1]][p[2]][p[3]]

\* RuntimeFeesConfig { <p>: f, ..c }: every field is pub, nothing is validated
WithFee(c, p, f) ==
    IF Len(p) = 1 THEN [c EXCEPT ![p[1]] = f]
    ELSE IF Len(p) = 2 THEN [c EXCEPT ![p[1]][p[2]] = f]
    ELSE [c EXCEPT ![p[1]][p[2]][p[3]] = f]

FeesOf(c) == { FeeAt(c, p) : p \in FeePaths }

(***************************************************************************)
(* RuntimeFeesConfig::min_receipt_with_function_call_gas: the left operand *)
(* is evaluated first, then the right one, then the sum.                   *)
(***************************************************************************)
\* variant: reads add_key_cost.function_call_cost, the other field of that name
min_receipt_with_add_key_cost(c, checks) ==
    LET a == min_send_and_exec_fee(c.action_receipt_creation_config, checks)
        b == min_send_and_exec_fee(c.action_creation_config.add_key_cost.function_call_cost,
                                   checks)
    IN  IF a.kind = "panic" THEN Panic
        ELSE IF b.kind = "panic" THEN Panic
        ELSE AddU64(a.v, b.v, checks)

min_receipt_with_function_call_gas(c, checks) ==
    LET a == min_send_and_exec_fee(c.action_receipt_creation_config, checks)
        b == min_send_and_exec_fee(c.action_creation_config.function_call_cost, checks)
    IN  IF a.kind = "panic" THEN Panic
        ELSE IF b.kind = "panic" THEN Panic
        ELSE AddU64(a.v, b.v, checks)

(***************************************************************************)
(* tests::test_data_roundtrip_is_more_expensive: Unit when the assertion   *)
(* holds, Panic when it fails (or when an addition panics).                *)
(***************************************************************************)
test_data_roundtrip_is_more_expensive(checks) ==
    LET transaction_costs == DefaultConfig
        lhs == min_send_and_exec_fee(
                   transaction_costs.data_receipt_creation_config.base_cost, checks)
        rhs == min_receipt_with_function_call_gas(transaction_costs, checks)
    IN  IF lhs.kind = "panic" \/ rhs.kind = "panic" THEN Panic
        ELSE IF BigLeq(rhs.v, lhs.v) THEN Unit
        ELSE Panic

(***************************************************************************)
(* The values a caller writes in a Fee literal.                            *)
(***************************************************************************)
GasVals == { Dec(0, 0, k) : k \in 0..MaxSmallGas } \cup { U64Max }

FeeLiterals == { Fee(s, n, e) : s \in GasVals, n \in GasVals, e \in GasVals }

\* The operand recorded when the last operation was not a Fee method.
NoFee == Fee(Zero, Zero, Zero)

(***************************************************************************)
(* State machine: a caller that builds schedules and calls the cost        *)
(* functions on them.                                                      *)
(***************************************************************************)
Init ==
    /\ overflow_checks \in BOOLEAN
    /\ cfg = DefaultConfig
    /\ built = "default"
    /\ op = "default"
    /\ self = NoFee
    /\ sir = FALSE
    /\ ret = NoRet

\* RuntimeFeesConfig::default()
ConstructDefault ==
    /\ ret = NoRet
    /\ cfg' = DefaultConfig
    /\ built' = "default"
    /\ op' = "default"
    /\ ret' = NoRet
    /\ self' = NoFee
    /\ sir' = FALSE
    /\ UNCHANGED overflow_checks

\* RuntimeFeesConfig::free()
ConstructFree ==
    /\ ret = NoRet
    /\ cfg' = FreeConfig
    /\ built' = "free"
    /\ op' = "free"
    /\ ret' = NoRet
    /\ self' = NoFee
    /\ sir' = FALSE
    /\ UNCHANGED overflow_checks

\* RuntimeFeesConfig { <p>: f, ..RuntimeFeesConfig::default() } and the same over free()
ConstructLiteral(p, f) ==
    /\ ret = NoRet
    /\ built \in {"default", "free"}
    /\ cfg' = WithFee(cfg, p, f)
    /\ built' = "literal"
    /\ op' = "literal"
    /\ ret' = NoRet
    /\ self' = NoFee
    /\ sir' = FALSE
    /\ UNCHANGED overflow_checks

\* fee.send_fee(b), for a Fee of the schedule
CallSendFee(p, b) ==
    /\ ret = NoRet
    /\ op' = "send_fee"
    /\ self' = FeeAt(cfg, p)
    /\ sir' = b
    /\ ret' = Value(send_fee(FeeAt(cfg, p), b))
    /\ UNCHANGED <<overflow_checks, cfg, built>>

\* fee.exec_fee()
CallExecFee(p) ==
    /\ ret = NoRet
    /\ op' = "exec_fee"
    /\ self' = FeeAt(cfg, p)
    /\ ret' = Value(exec_fee(FeeAt(cfg, p)))
    /\ sir' = FALSE
    /\ UNCHANGED <<overflow_checks, cfg, built>>

\* fee.min_send_and_exec_fee()
CallMinSendAndExecFee(p) ==
    /\ ret = NoRet
    /\ op' = "min_send_and_exec_fee"
    /\ self' = FeeAt(cfg, p)
    /\ ret' = min_send_and_exec_fee(FeeAt(cfg, p), overflow_checks)
    /\ sir' = FALSE
    /\ UNCHANGED <<overflow_checks, cfg, built>>

\* cfg.min_receipt_with_function_call_gas()
CallMinReceiptWithFunctionCallGas ==
    /\ ret = NoRet
    /\ op' = "min_receipt_with_function_call_gas"
    /\ ret' = min_receipt_with_function_call_gas(cfg, overflow_checks)
    /\ self' = NoFee
    /\ sir' = FALSE
    /\ UNCHANGED <<overflow_checks, cfg, built>>

\* cargo test: test_data_roundtrip_is_more_expensive
RunTest ==
    /\ ret = NoRet
    /\ op' = "test_data_roundtrip_is_more_expensive"
    /\ ret' = test_data_roundtrip_is_more_expensive(overflow_checks)
    /\ self' = NoFee
    /\ sir' = FALSE
    /\ UNCHANGED <<overflow_checks, cfg, built>>

\* the caller takes the result of the last call (or unwinds from its panic)
Return ==
    /\ ret # NoRet
    /\ op' = "idle"
    /\ ret' = NoRet
    /\ self' = NoFee
    /\ sir' = FALSE
    /\ UNCHANGED <<overflow_checks, cfg, built>>

Next ==
    \/ ConstructDefault
    \/ ConstructFree
    \/ \E p \in FeePaths, f \in FeeLiterals : ConstructLiteral(p, f)
    \/ \E p \in FeePaths, b \in BOOLEAN : CallSendFee(p, b)
    \/ \E p \in FeePaths : CallExecFee(p)
    \/ \E p \in FeePaths : CallMinSendAndExecFee(p)
    \/ CallMinReceiptWithFunctionCallGas
    \/ RunTest
    \/ Return

Spec == Init /\ [][Next]_vars

(***************************************************************************)
(* What the properties are stated with: the exact (unbounded) quantities.  *)
(***************************************************************************)
\* min(send_sir, send_not_sir) + execution, as a natural number
ExactMinSendAndExec(fee) ==
    LET m == IF BigLess(fee.send_not_sir, fee.send_sir)
             THEN fee.send_not_sir ELSE fee.send_sir
    IN  BigAdd(m, fee.execution)

\* the sum of the two minima, as a natural number
ExactMinReceiptWithFunctionCall(c) ==
    BigAdd(ExactMinSendAndExec(c.action_receipt_creation_config),
           ExactMinSendAndExec(c.action_creation_config.function_call_cost))

FitsU64(n) == BigLeq(n, U64Max)

\* the data-receipt invariant of the schedule c
DataReceiptInvariant(c) ==
    BigLeq(ExactMinReceiptWithFunctionCall(c),
           ExactMinSendAndExec(c.data_receipt_creation_config.base_cost))

\* the Fee fields min_receipt_with_function_call_gas is specified to read
FunctionCallPaths ==
    { <<"action_receipt_creation_config">>,
      <<"action_creation_config", "function_call_cost">> }

(***************************************************************************)
(* Properties.                                                             *)
(***************************************************************************)
\* C1: in the schedule returned by RuntimeFeesConfig::default(), the minimum
\* send-and-execute fee of the data receipt base cost is at least
\* min_receipt_with_function_call_gas(), and the test asserting it passes.
C1_DefaultDataReceiptNotCheaper ==
    /\ built = "default" => DataReceiptInvariant(cfg)
    /\ op = "test_data_roundtrip_is_more_expensive" => ret = Unit

\* C2: a schedule built from a literal that violates the data-receipt
\* invariant is never held by a caller: every built value satisfies it.
C2_InvalidScheduleRejected ==
    built = "literal" => DataReceiptInvariant(cfg)

\* C3: whenever an addition of min_send_and_exec_fee or of
\* min_receipt_with_function_call_gas exceeds 2^64 - 1, the call panics; it
\* returns no wrapped and no saturated value.
C3_OverflowIsFatal ==
    /\ (op = "min_send_and_exec_fee" /\ ~FitsU64(ExactMinSendAndExec(self)))
           => ret = Panic
    /\ (op = "min_receipt_with_function_call_gas"
            /\ ~FitsU64(ExactMinReceiptWithFunctionCall(cfg)))
           => ret = Panic

\* C4: for a Fee whose sum fits in 64 bits, min_send_and_exec_fee returns
\* min(send_sir, send_not_sir) + execution.
C4_MinSendAndExecFee ==
    (op = "min_send_and_exec_fee" /\ FitsU64(ExactMinSendAndExec(self)))
        => ret = Value(ExactMinSendAndExec(self))

C4_Witness ==
    /\ op = "min_send_and_exec_fee"
    /\ FitsU64(ExactMinSendAndExec(self))
    /\ BigLess(self.send_not_sir, self.send_sir)
    /\ self.execution # Zero
    /\ ret = Value(BigAdd(self.send_not_sir, self.execution))

\* C5: with no overflow, min_receipt_with_function_call_gas returns the sum of
\* the minimum send-and-execute fees of action_receipt_creation_config and of
\* action_creation_config.function_call_cost, and the result is the same
\* whatever any other Fee field of the schedule is.
C5_MinReceiptWithFunctionCallGas ==
    (op = "min_receipt_with_function_call_gas"
        /\ FitsU64(ExactMinReceiptWithFunctionCall(cfg)))
        => /\ ret = Value(ExactMinReceiptWithFunctionCall(cfg))
           /\ \A p \in FeePaths \ FunctionCallPaths, f \in FeeLiterals :
                  min_receipt_with_function_call_gas(WithFee(cfg, p, f), overflow_checks)
                      = ret

C5_Witness ==
    /\ op = "min_receipt_with_function_call_gas"
    /\ built = "literal"
    /\ ret.kind = "value"
    /\ ret.v # Zero
    /\ cfg.action_creation_config.add_key_cost.function_call_cost
           # cfg.action_creation_config.function_call_cost
    /\ cfg.action_receipt_creation_config.send_sir
           # cfg.action_receipt_creation_config.send_not_sir

\* C6: send_fee returns send_sir when the flag is true and send_not_sir when it
\* is false, exec_fee returns execution, and a call of either leaves the Fee and
\* the schedule that holds it as they were.
C6_SendFeeExecFee ==
    /\ [](op = "send_fee"
            => ret = Value(IF sir THEN self.send_sir ELSE self.send_not_sir))
    /\ [](op = "exec_fee" => ret = Value(self.execution))
    /\ [][(ret = NoRet /\ op' \in {"send_fee", "exec_fee"})
            => (cfg' = cfg /\ self' \in FeesOf(cfg'))]_vars

C6_Witness ==
    /\ op = "send_fee"
    /\ sir
    /\ self.send_sir # self.send_not_sir
    /\ ret = Value(self.send_sir)
    /\ built = "literal"

\* C7: the schedule returned by RuntimeFeesConfig::free() has every Gas field
\* 0, both storage constants 0 and both rationals 0, and both sides of the
\* data-receipt invariant are 0 on it.
C7_FreeScheduleIsZero ==
    built = "free"
        => /\ \A p \in FeePaths : FeeAt(cfg, p) = Fee(Zero, Zero, Zero)
           /\ cfg.storage_usage_config.num_bytes_account = 0
           /\ cfg.storage_usage_config.num_extra_bytes_record = 0
           /\ RationalIsZero(cfg.burnt_gas_reward)
           /\ RationalIsZero(cfg.pessimistic_gas_price_inflation_ratio)
           /\ op = "min_receipt_with_function_call_gas" => ret = Value(Zero)
           /\ (op = "min_send_and_exec_fee"
                  /\ self = cfg.data_receipt_creation_config.base_cost)
                  => ret = Value(Zero)
           /\ DataReceiptInvariant(cfg)

C7_Witness ==
    /\ built = "free"
    /\ op = "min_receipt_with_function_call_gas"
    /\ ret = Value(Zero)

\* C8 (as stated): in the schedule of either constructor,
\* pessimistic_gas_price_inflation_ratio is greater than 1.
C8_RatioGreaterThanOneInBothModes ==
    built \in {"default", "free"}
        => RationalGreaterThanOne(cfg.pessimistic_gas_price_inflation_ratio)

\* C8 (amended): pessimistic_gas_price_inflation_ratio is 103/100, greater than
\* 1, in the schedule returned by default(), and 0 in the one returned by free().
C8_RatioByConstructor ==
    /\ built = "default"
           => /\ RationalGreaterThanOne(cfg.pessimistic_gas_price_inflation_ratio)
              /\ cfg.pessimistic_gas_price_inflation_ratio.numer * 100
                     = cfg.pessimistic_gas_price_inflation_ratio.denom * 103
    /\ built = "free"
           => RationalIsZero(cfg.pessimistic_gas_price_inflation_ratio)

C8_Witness ==
    /\ built = "free"
    /\ op = "free"
    /\ ~RationalGreaterThanOne(cfg.pessimistic_gas_price_inflation_ratio)

\* C9 (as stated): on the default schedule
\* min_receipt_with_function_call_gas() returns 5530232375000 and
\* min_send_and_exec_fee of the data receipt base cost returns 2137525877500.
C9_DefaultConcreteValuesAsStated ==
    built = "default"
        => /\ op = "min_receipt_with_function_call_gas"
                  => ret = Value(Dec(0, 5530, 232375000))
           /\ (op = "min_send_and_exec_fee"
                  /\ self = cfg.data_receipt_creation_config.base_cost)
                  => ret = Value(Dec(0, 2137, 525877500))

\* C9 (amended): on the default schedule min_receipt_with_function_call_gas()
\* returns 5530233375000 (151021812500 + 151021812500 + 2614094875000 +
\* 2614094875000) and min_send_and_exec_fee of the data receipt base cost
\* returns 2137525877500.
C9_DefaultConcreteValues ==
    built = "default"
        => /\ op = "min_receipt_with_function_call_gas"
                  => ret = Value(Dec(0, 5530, 233375000))
           /\ (op = "min_send_and_exec_fee"
                  /\ self = cfg.data_receipt_creation_config.base_cost)
                  => ret = Value(Dec(0, 2137, 525877500))

C9_Witness ==
    /\ built = "default"
    /\ op = "min_receipt_with_function_call_gas"
    /\ ret = Value(Dec(0, 5530, 233375000))

\* C10: with no overflow, min_send_and_exec_fee(t) is at most
\* send_fee(t, b) + exec_fee(t) for both flags b, with equality for at least one
\* b, and for both when send_sir = send_not_sir.
C10_MinIsLowerBoundOfCharged ==
    (op = "min_send_and_exec_fee" /\ FitsU64(ExactMinSendAndExec(self)))
        => /\ ret.kind = "value"
           /\ \A b \in BOOLEAN :
                  BigLeq(ret.v, BigAdd(send_fee(self, b), exec_fee(self)))
           /\ \E b \in BOOLEAN :
                  ret.v = BigAdd(send_fee(self, b), exec_fee(self))
           /\ self.send_sir = self.send_not_sir
                  => \A b \in BOOLEAN :
                         ret.v = BigAdd(send_fee(self, b), exec_fee(self))

C10_Witness ==
    /\ op = "min_send_and_exec_fee"
    /\ ret.kind = "value"
    /\ BigLess(self.send_sir, self.send_not_sir)
    /\ BigLess(ret.v, BigAdd(send_fee(self, FALSE), exec_fee(self)))
    /\ ret.v = BigAdd(send_fee(self, TRUE), exec_fee(self))

====
